---- MODULE Spec2Model ----
(***************************************************************************)
(* Model of makina404.py: a subdomain-takeover scanner.  main() enumerates *)
(* subdomains of each root domain with the rapiddns tool, creates one      *)
(* asyncio task per well-formed hostname (check_subdomain), and each task  *)
(* probes https:// then http://, and on a 404 takes a screenshot through a *)
(* shared browser and posts it to a Discord webhook.  Two asyncio          *)
(* semaphores bound the HTTP requests and the browser captures.            *)
(*                                                                         *)
(* Every `await` of the source is one pc value of the task that awaits;    *)
(* the code between two awaits is one atomic action (asyncio is            *)
(* cooperative: a task is only suspended at an await).                     *)
(***************************************************************************)
EXTENDS Integers, Sequences, FiniteSets, TLC

(***************************************************************************)
(* Bounds of the model.                                                    *)
(***************************************************************************)
\* Scaled-down value of HTTPX_CONCURRENCY (100 in the source, line 25).
HTTPX_CONCURRENCY == 2
\* Scaled-down value of SCREENSHOT_CONCURRENCY (5 in the source, line 23).
SCREENSHOT_CONCURRENCY == 1
\* Largest number of root domains in domains.txt.
MaxDomains == 2
\* Largest number of check_subdomain tasks created in one run of Spec.
MaxTasks == 2
\* Largest number of tasks in one run of SpecPools, where the HTTP layer is a
\* stub that answers every request with a status.
MaxPoolTasks == 3

(***************************************************************************)
(* Hostnames are sequences of one-character strings so that the string     *)
(* tests of the source can be computed.                                    *)
(***************************************************************************)
\* The characters str.strip() removes: those for which str.isspace() is
\* true.  Listed are the space, \t, \n, \r, \f and, written as themselves,
\* U+000B, U+001C to U+001F, U+0085, U+00A0 and U+1680; the other Unicode
\* spaces (U+2000 to U+200A, U+2028, U+2029, U+202F, U+205F, U+3000) cannot
\* be written in a string of this module.
Whitespace ==
    { " ", "\t", "\n", "\r", "\f", "", "", "", "", "", "", " ", " " }

IsSpace(c) == c \in Whitespace

RECURSIVE LStrip(_)
LStrip(s) == IF s # <<>> /\ IsSpace(Head(s)) THEN LStrip(Tail(s)) ELSE s

RECURSIVE RStrip(_)
RStrip(s) ==
    IF s # <<>> /\ IsSpace(s[Len(s)]) THEN RStrip(SubSeq(s, 1, Len(s) - 1)) ELSE s

\* str.strip()
Strip(s) == RStrip(LStrip(s))

\* '.' in sub
HasDot(s) == \E i \in 1..Len(s) : s[i] = "."

\* sub.startswith('.')
StartsWithDot(s) == s # <<>> /\ s[1] = "."

\* sub.endswith('.')
EndsWithDot(s) == s # <<>> /\ s[Len(s)] = "."

\* The standard outputs the rapiddns stub can print, as sequences of lines.
ToolOutputs ==
    { <<>>,
      << <<"a", ".", "b">> >>,
      << <<"\t", "a", ".", "b", " ">>, <<>>, <<"a", ".", "b">>, <<".", "a">>,
         <<"a", ".">>, <<"a", "b">>, <<" ", "\t">> >>,
      << <<"c", ".", "d">>, <<"a", "b">>, <<"a", ".", "b">> >> }

\* run_rapiddns, zero exit: the set of stripped, non-blank lines of stdout.
ParseOutput(lines) ==
    { Strip(lines[i]) : i \in { j \in 1..Len(lines) : Strip(lines[j]) # <<>> } }

\* The test of line 232 without its last disjunct.
SkipMutNoEnd(sub) == sub = <<>> \/ ~HasDot(sub) \/ StartsWithDot(sub)

\* main, line 232: the hostnames for which no task is created.
SkipSubdomain(sub) ==
    sub = <<>> \/ ~HasDot(sub) \/ StartsWithDot(sub) \/ EndsWithDot(sub)

\* The lists that hold every hostname, one of them twice, as when the lines
\* are not collected in a set.
SetToSeqMutDuplicates(S) ==
    { q \in [1..(Cardinality(S) + 1) -> S] : \A x \in S : \E i \in DOMAIN q : q[i] = x }

\* Line 72, list(subdomains): the lists that hold every element of the set
\* once.  Python does not fix the order in which a set of str is iterated
\* (it changes with the hash seed of the process), so every order can be the
\* one of a run; tasks are created in that order.
SetToSeq(S) ==
    { q \in [1..Cardinality(S) -> S] : \A i, j \in DOMAIN q : i # j => q[i] # q[j] }

RECURSIVE SelectValid(_)
SelectValid(q) ==
    IF q = <<>> THEN <<>>
    ELSE IF SkipSubdomain(Head(q)) THEN SelectValid(Tail(q))
         ELSE <<Head(q)>> \o SelectValid(Tail(q))


(***************************************************************************)
(* State.                                                                  *)
(***************************************************************************)
VARIABLES
    file_exists,        \* domains.txt exists
    file_readable,      \* open() and the read of its lines succeed
    target_domains,     \* number of root domains read from it
    webhook_url,        \* DISCORD_WEBHOOK_URL is set
    main_pc,            \* where main() is
    main_exc,           \* exception leaving main(): "none", "SystemExit" or
                        \* "Exception" (one that main() does not catch)
    exit_code,          \* -1 while the process runs, then its exit code
    enumerated,         \* what run_rapiddns did for each root domain so far
    browser,            \* "none", "open" or "closed"
    contexts,           \* browsing contexts open in the browser
    pages,              \* pages open in the browser
    tasks,              \* all_subdomain_check_tasks, one record per task
    httpx_semaphore,    \* free slots of httpx_semaphore
    browser_semaphore   \* free slots of browser_semaphore

vars == <<file_exists, file_readable, target_domains, webhook_url, main_pc,
          main_exc, exit_code,
          enumerated, browser, contexts, pages, tasks,
          httpx_semaphore, browser_semaphore>>

config == <<file_exists, file_readable, target_domains, webhook_url>>
pools == <<httpx_semaphore, browser_semaphore>>
mainState == <<main_pc, main_exc, exit_code, enumerated>>
browserState == <<browser, contexts, pages>>

\* protocols = ['https', 'http']
protocols == <<"https", "http">>

\* What client.get can do.  HTTPStatusError is left out: httpx raises it only
\* from raise_for_status(), which the program never calls.
Outcomes ==
    {"status404", "statusOther", "Timeout", "ConnectError", "TooManyRedirects",
     "OtherError"}

\* The answers of the stubbed HTTP layer of SpecPools.
StubOutcomes == {"status404", "statusOther"}

\* The awaits of take_screenshot between acquiring and releasing the slot.
CapturePcs ==
    {"new_context", "new_page", "goto", "screenshot", "page_close",
     "context_close", "finally_close"}

\* The awaits inside `async with httpx_semaphore`.
HttpxPcs == {"get", "acquire_browser", "post"} \cup CapturePcs

\* A task as asyncio.create_task(check_subdomain(sub, ...)) creates it.
NewTask(sub, domain) ==
    [ sub     |-> sub,
      domain  |-> domain,     \* index of the root domain it was found for
      pc      |-> "acquire_httpx",
      proto   |-> 1,
      r       |-> <<>>,       \* what each request of this task ended in
      caps    |-> <<>>,       \* protocol index of each take_screenshot call
      shots   |-> 0,          \* take_screenshot calls that returned a screenshot
      alerts  |-> 0,          \* send_to_discord calls
      context |-> "none",     \* take_screenshot's context
      page    |-> "none",     \* take_screenshot's page
      shot    |-> FALSE ]     \* screenshot_bytes is not None

RECURSIVE MakeTasks(_, _)
MakeTasks(q, domain) ==
    IF q = <<>> THEN <<>>
    ELSE <<NewTask(Head(q), domain)>> \o MakeTasks(Tail(q), domain)

Tasks == 1..Len(tasks)

Init ==
    /\ file_exists \in BOOLEAN
    /\ target_domains \in 0..MaxDomains
    /\ file_readable \in BOOLEAN
    /\ (file_readable => file_exists)
    /\ (~file_readable => target_domains = 0)
    /\ webhook_url \in BOOLEAN
    /\ main_pc = "open"
    /\ main_exc = "none"
    /\ exit_code = -1
    /\ enumerated = <<>>
    /\ browser = "none"
    /\ contexts = 0
    /\ pages = 0
    /\ tasks = <<>>
    /\ httpx_semaphore = HTTPX_CONCURRENCY
    /\ browser_semaphore = SCREENSHOT_CONCURRENCY

(***************************************************************************)
(* main()                                                                  *)
(***************************************************************************)
\* Lines 191-200: a missing or empty input file returns from main().  Only
\* FileNotFoundError is caught: any other failure of open() or of the read
\* (a directory, no permission, bytes that cannot be decoded) leaves main()
\* and asyncio.run, and the process ends with a traceback and exit code 1.
OpenInput ==
    /\ main_pc = "open"
    /\ IF ~file_exists
       THEN main_pc' = "done" /\ exit_code' = 0 /\ main_exc' = main_exc
       ELSE IF ~file_readable
       THEN main_pc' = "done" /\ exit_code' = 1 /\ main_exc' = "Exception"
       ELSE IF target_domains = 0
       THEN main_pc' = "done" /\ exit_code' = 0 /\ main_exc' = main_exc
       ELSE main_pc' = "launch" /\ exit_code' = exit_code /\ main_exc' = main_exc
    /\ UNCHANGED <<config, enumerated, browserState, tasks, pools>>

\* Line 222: the browser starts.
LaunchBrowser ==
    /\ main_pc = "launch"
    /\ browser' = "open"
    /\ main_pc' = "enumerate"
    /\ UNCHANGED <<config, main_exc, exit_code, enumerated, contexts, pages,
                   tasks, pools>>

\* Lines 222, 245-255: the launch raises PlaywrightError; browser is None in
\* the finally block and main() returns.
LaunchFails ==
    /\ main_pc = "launch"
    /\ main_pc' = "done"
    /\ exit_code' = 0
    /\ UNCHANGED <<config, main_exc, enumerated, browserState, tasks, pools>>

\* After the body of `for domain in target_domains`.
AfterDomain == IF Len(enumerated) + 1 = target_domains THEN "gather" ELSE "enumerate"

\* Lines 227-236 with run_rapiddns exiting 0 and printing out.
EnumerateOk(maxTasks) ==
    /\ main_pc = "enumerate"
    /\ \E out \in ToolOutputs : \E subdomains \in SetToSeq(ParseOutput(out)) :
         LET valid == SelectValid(subdomains)
         IN /\ Len(tasks) + Len(valid) <= maxTasks
            /\ enumerated' = Append(enumerated, [rc |-> "zero", subs |-> ParseOutput(out)])
            /\ tasks' = tasks \o MakeTasks(valid, Len(enumerated) + 1)
    /\ main_pc' = AfterDomain
    /\ UNCHANGED <<config, main_exc, exit_code, browserState, pools>>

\* A failed enumeration that ends the loop over the root domains.
EnumerateFailsMutStops ==
    /\ main_pc = "enumerate"
    /\ enumerated' = Append(enumerated, [rc |-> "failed", subs |-> {}])
    /\ main_pc' = "gather"
    /\ UNCHANGED <<config, main_exc, exit_code, browserState, tasks, pools>>

\* Lines 52-54 and 69-72: a non-zero exit or an exception other than
\* FileNotFoundError gives an empty list.
EnumerateFails ==
    /\ main_pc = "enumerate"
    /\ enumerated' = Append(enumerated, [rc |-> "failed", subs |-> {}])
    /\ main_pc' = AfterDomain
    /\ UNCHANGED <<config, main_exc, exit_code, browserState, tasks, pools>>

\* A missing tool handled like any other exception of run_rapiddns.
EnumerateNotFoundMutContinues ==
    /\ main_pc = "enumerate"
    /\ enumerated' = Append(enumerated, [rc |-> "not_found", subs |-> {}])
    /\ main_pc' = AfterDomain
    /\ UNCHANGED <<config, main_exc, exit_code, browserState, tasks, pools>>

\* Lines 65-68: the tool is not found, sys.exit(1) raises SystemExit, which
\* main() does not catch; its finally block runs.
EnumerateNotFound ==
    /\ main_pc = "enumerate"
    /\ main_exc' = "SystemExit"
    /\ main_pc' = "close_browser"
    /\ enumerated' = Append(enumerated, [rc |-> "not_found", subs |-> {}])
    /\ UNCHANGED <<config, exit_code, browserState, tasks, pools>>

\* A gather that does not wait for the tasks.
GatherReadyMutNoWait == TRUE

\* Line 241: asyncio.gather returns when every task has returned, and raises
\* as soon as one task has raised.
GatherReady ==
    \/ \A t \in Tasks : tasks[t].pc = "done"
    \/ \E t \in Tasks : tasks[t].pc = "raised"

\* Lines 239-249: the gather is over; an exception it raises is caught at
\* line 248, and the finally block follows either way.
Gather ==
    /\ main_pc = "gather"
    /\ GatherReady
    /\ main_pc' = "close_browser"
    /\ UNCHANGED <<config, main_exc, exit_code, enumerated, browserState, tasks,
                   pools>>

\* Lines 250-255: browser.close() closes the browser with all its contexts
\* and pages; the page of a task caught in a capture reports is_closed().
CloseBrowser ==
    /\ main_pc = "close_browser"
    /\ browser' = "closed"
    /\ contexts' = 0
    /\ pages' = 0
    /\ tasks' = [ t \in Tasks |->
                    [tasks[t] EXCEPT
                        !.page = IF @ = "open" THEN "closed" ELSE @,
                        !.context = IF @ = "open" THEN "closed" ELSE @] ]
    /\ IF main_exc = "SystemExit"
       THEN main_pc' = "cancel_tasks" /\ exit_code' = exit_code
       ELSE main_pc' = "done" /\ exit_code' = 0
    /\ UNCHANGED <<config, main_exc, enumerated, pools>>

Holding(pcs) == Cardinality({ t \in Tasks : tasks[t].pc \in pcs })

\* asyncio.run on SystemExit: the tasks still pending are cancelled (their
\* `async with` blocks release the slots) and the process exits with 1.
CancelTasks ==
    /\ main_pc = "cancel_tasks"
    /\ tasks' = [ t \in Tasks |->
                    IF tasks[t].pc \in {"done", "raised"} THEN tasks[t]
                    ELSE [tasks[t] EXCEPT !.pc = "cancelled"] ]
    /\ httpx_semaphore' = httpx_semaphore + Holding(HttpxPcs)
    /\ browser_semaphore' = browser_semaphore + Holding(CapturePcs)
    /\ main_pc' = "done"
    /\ exit_code' = 1
    /\ UNCHANGED <<config, main_exc, enumerated, browserState>>


(***************************************************************************)
(* check_subdomain, take_screenshot and send_to_discord                    *)
(***************************************************************************)
\* A semaphore that hands out one slot too many.
CanAcquireMutNoLimit(value) == value >= 0

\* asyncio.Semaphore.acquire returns only while the counter is positive.
CanAcquire(value) == value > 0

\* Line 153: `return` ends the task.
Return(rec) == [rec EXCEPT !.pc = "done", !.shot = FALSE]

\* Lines 140, 175, 181: the next iteration of `for proto in protocols`, or
\* the end of the function when there is none.
NextProtocol(rec) ==
    IF rec.proto < Len(protocols)
    THEN [rec EXCEPT !.proto = @ + 1, !.pc = "acquire_httpx", !.shot = FALSE]
    ELSE [rec EXCEPT !.pc = "done", !.shot = FALSE]

\* An unexpected error of client.get that is not caught in check_subdomain.
AfterProbeMutRaises(rec, outcome) ==
    IF outcome = "OtherError"
    THEN [rec EXCEPT !.pc = "raised", !.shot = FALSE]
    ELSE NextProtocol(rec)

\* A connection error that ends the task instead of falling back to http.
AfterProbeMutNoFallback(rec, outcome) ==
    IF outcome = "ConnectError" THEN Return(rec) ELSE NextProtocol(rec)

\* Lines 147-181: where the task goes after a request that did not give 404.
\* No branch returns or breaks: a status other than 404 falls out of the try
\* block, the Timeout and TooManyRedirects handlers only print, the others
\* `continue`.
AfterProbe(rec, outcome) ==
    CASE outcome = "statusOther"      -> NextProtocol(rec)
      [] outcome = "Timeout"          -> NextProtocol(rec)
      [] outcome = "ConnectError"     -> NextProtocol(rec)
      [] outcome = "TooManyRedirects" -> NextProtocol(rec)
      [] OTHER                        -> NextProtocol(rec)

\* A 404 branch without its `return`.
After404MutNoReturn(rec) == NextProtocol(rec)

\* Lines 149-153: what follows the 404 branch once take_screenshot returned.
After404(rec) == Return(rec)

\* An alert sent whether or not there is a screenshot.
ShouldAlertMutAlways(shot) == TRUE

\* Line 150: `if screenshot:`.
ShouldAlert(shot) == shot

\* A send_to_discord that posts without looking at the webhook.
ShouldPostMutNoUrlTest(url, shot) == shot

\* Line 76: send_to_discord posts only with a webhook and a screenshot.
ShouldPost(url, shot) == url /\ shot

\* A probe slot that is not given back when the loop continues.
SetTaskMutKeepsSlot(t, rec, dh, db) ==
    /\ tasks' = [tasks EXCEPT ![t] = rec]
    /\ httpx_semaphore' = httpx_semaphore + (IF rec.pc = "acquire_httpx" THEN 0 ELSE dh)
    /\ browser_semaphore' = browser_semaphore + db

\* A capture that never gives its browser slot back.
SetTaskMutKeepsBrowserSlot(t, rec, dh, db) ==
    /\ tasks' = [tasks EXCEPT ![t] = rec]
    /\ httpx_semaphore' = httpx_semaphore + dh
    /\ browser_semaphore' = browser_semaphore + (IF db > 0 THEN 0 ELSE db)

\* The record of task t becomes rec; dh and db slots go back to the pools.
SetTask(t, rec, dh, db) ==
    /\ tasks' = [tasks EXCEPT ![t] = rec]
    /\ httpx_semaphore' = httpx_semaphore + dh
    /\ browser_semaphore' = browser_semaphore + db

\* Line 142: `async with httpx_semaphore`.
AcquireHttpx(t) ==
    /\ tasks[t].pc = "acquire_httpx"
    /\ CanAcquire(httpx_semaphore)
    /\ SetTask(t, [tasks[t] EXCEPT !.pc = "get"], -1, 0)
    /\ UNCHANGED <<config, mainState, browserState>>

\* Lines 144-181: client.get returns or raises.
GetCompletes(t, outcomes) ==
    /\ tasks[t].pc = "get"
    /\ \E outcome \in outcomes :
         LET rec == [tasks[t] EXCEPT !.r = Append(@, outcome)]
         IN IF outcome = "status404"
            THEN SetTask(t, [rec EXCEPT !.caps = Append(@, rec.proto),
                                        !.pc = "acquire_browser"], 0, 0)
            ELSE SetTask(t, AfterProbe(rec, outcome), 1, 0)
    /\ UNCHANGED <<config, mainState, browserState>>

\* Lines 101-105: `async with browser_semaphore`.
AcquireBrowser(t) ==
    /\ tasks[t].pc = "acquire_browser"
    /\ CanAcquire(browser_semaphore)
    /\ SetTask(t, [tasks[t] EXCEPT !.pc = "new_context", !.page = "none",
                                   !.context = "none", !.shot = FALSE], 0, -1)
    /\ UNCHANGED <<config, mainState, browserState>>

\* Line 133 and lines 150-153: take_screenshot returns screenshot_bytes and
\* releases the capture slot; check_subdomain alerts if there is a screenshot.
ReturnScreenshot(t, rec) ==
    LET out == [rec EXCEPT !.page = "none", !.context = "none",
                           !.shots = IF rec.shot THEN @ + 1 ELSE @]
    IN IF ShouldAlert(rec.shot)
       THEN IF ShouldPost(webhook_url, rec.shot)
            THEN SetTask(t, [out EXCEPT !.alerts = @ + 1, !.pc = "post"], 0, 1)
            ELSE SetTask(t, After404([out EXCEPT !.alerts = @ + 1]), 1, 1)
       ELSE SetTask(t, After404(out), 1, 1)

\* Lines 120-130: the try block is over, by its end or by a handled
\* exception; the finally block closes the page if there is one and it does
\* not report is_closed() (closed by line 118, or with the browser).
EndTry(t, rec) ==
    IF rec.page = "open"
    THEN SetTask(t, [rec EXCEPT !.pc = "finally_close"], 0, 0)
    ELSE ReturnScreenshot(t, rec)

\* Line 107: browser.new_context.
NewContext(t) ==
    /\ tasks[t].pc = "new_context"
    /\ \/ /\ browser = "open"
          /\ contexts' = contexts + 1
          /\ SetTask(t, [tasks[t] EXCEPT !.context = "open", !.pc = "new_page"], 0, 0)
       \/ /\ contexts' = contexts
          /\ EndTry(t, tasks[t])
    /\ UNCHANGED <<config, mainState, browser, pages>>

\* Line 112: context.new_page.
NewPage(t) ==
    /\ tasks[t].pc = "new_page"
    /\ \/ /\ browser = "open"
          /\ pages' = pages + 1
          /\ SetTask(t, [tasks[t] EXCEPT !.page = "open", !.pc = "goto"], 0, 0)
       \/ /\ pages' = pages
          /\ EndTry(t, tasks[t])
    /\ UNCHANGED <<config, mainState, browser, contexts>>

\* Line 113: page.goto.
Goto(t) ==
    /\ tasks[t].pc = "goto"
    /\ \/ /\ browser = "open"
          /\ SetTask(t, [tasks[t] EXCEPT !.pc = "screenshot"], 0, 0)
       \/ EndTry(t, tasks[t])
    /\ UNCHANGED <<config, mainState, browserState>>

\* Line 116: page.screenshot.
Screenshot(t) ==
    /\ tasks[t].pc = "screenshot"
    /\ \/ /\ browser = "open"
          /\ SetTask(t, [tasks[t] EXCEPT !.shot = TRUE, !.pc = "page_close"], 0, 0)
       \/ EndTry(t, tasks[t])
    /\ UNCHANGED <<config, mainState, browserState>>

\* Line 118: page.close in the try block.  A close that was awaited while
\* the browser closed the page returns or raises.
PageClose(t) ==
    /\ tasks[t].pc = "page_close"
    /\ \/ /\ browser = "open" \/ tasks[t].page = "closed"
          /\ pages' = IF tasks[t].page = "open" THEN pages - 1 ELSE pages
          /\ SetTask(t, [tasks[t] EXCEPT !.page = "closed", !.pc = "context_close"], 0, 0)
       \/ /\ pages' = pages
          /\ EndTry(t, tasks[t])
    /\ UNCHANGED <<config, mainState, browser, contexts>>

\* Line 119: context.close.  A close of a context that the browser has
\* closed returns or raises.
ContextClose(t) ==
    /\ tasks[t].pc = "context_close"
    /\ \/ /\ browser = "open" \/ tasks[t].context = "closed"
          /\ contexts' = IF tasks[t].context = "open" THEN contexts - 1 ELSE contexts
          /\ EndTry(t, [tasks[t] EXCEPT !.context = "closed"])
       \/ /\ contexts' = contexts
          /\ EndTry(t, tasks[t])
    /\ UNCHANGED <<config, mainState, browser, pages>>

\* Lines 129-130: page.close in the finally block.  When it raises, the
\* exception leaves take_screenshot and is caught at line 178, which
\* continues with the next protocol.  A close that was awaited while the
\* browser closed the page returns or raises.
FinallyClose(t) ==
    /\ tasks[t].pc = "finally_close"
    /\ \/ /\ browser = "open" \/ tasks[t].page = "closed"
          /\ pages' = IF tasks[t].page = "open" THEN pages - 1 ELSE pages
          /\ ReturnScreenshot(t, [tasks[t] EXCEPT !.page = "closed"])
       \/ /\ pages' = pages
          /\ SetTask(t, NextProtocol([tasks[t] EXCEPT !.page = "none",
                                                      !.context = "none"]), 1, 1)
    /\ UNCHANGED <<config, mainState, browser, contexts>>

\* Lines 81-96: the POST answers 2xx, answers something else or raises; each
\* is logged and send_to_discord returns.
Post(t) ==
    /\ tasks[t].pc = "post"
    /\ SetTask(t, After404(tasks[t]), 1, 0)
    /\ UNCHANGED <<config, mainState, browserState>>

\* The steps of the program when client.get ends in one of outcomes and at
\* most maxTasks tasks are created.
Step(outcomes, maxTasks) ==
    \/ OpenInput
    \/ LaunchBrowser
    \/ LaunchFails
    \/ EnumerateOk(maxTasks)
    \/ EnumerateFails
    \/ EnumerateNotFound
    \/ Gather
    \/ CloseBrowser
    \/ CancelTasks
    \/ \E t \in Tasks : AcquireHttpx(t)
    \/ \E t \in Tasks : GetCompletes(t, outcomes)
    \/ \E t \in Tasks : AcquireBrowser(t)
    \/ \E t \in Tasks : NewContext(t)
    \/ \E t \in Tasks : NewPage(t)
    \/ \E t \in Tasks : Goto(t)
    \/ \E t \in Tasks : Screenshot(t)
    \/ \E t \in Tasks : PageClose(t)
    \/ \E t \in Tasks : ContextClose(t)
    \/ \E t \in Tasks : FinallyClose(t)
    \/ \E t \in Tasks : Post(t)

Next == Step(Outcomes, MaxTasks)

Spec == Init /\ [][Next]_vars

\* More tasks than probe slots, against an HTTP layer that always answers.
NextPools == Step(StubOutcomes, MaxPoolTasks)

SpecPools == Init /\ [][NextPools]_vars

\* The steps of main() with at most maxTasks tasks.
MainStep(maxTasks) ==
    \/ OpenInput
    \/ LaunchBrowser
    \/ LaunchFails
    \/ EnumerateOk(maxTasks)
    \/ EnumerateFails
    \/ EnumerateNotFound
    \/ Gather
    \/ CloseBrowser
    \/ CancelTasks

\* The steps of task t that end an external operation: the request, a
\* browser call or the POST returns or fails.
TaskIO(t, outcomes) ==
    /\ t \in Tasks
    /\ \/ GetCompletes(t, outcomes)
       \/ NewContext(t)
       \/ NewPage(t)
       \/ Goto(t)
       \/ Screenshot(t)
       \/ PageClose(t)
       \/ ContextClose(t)
       \/ FinallyClose(t)
       \/ Post(t)

\* The steps of task t that take a slot of a pool.
TaskAcquire(t) ==
    /\ t \in Tasks
    /\ (AcquireHttpx(t) \/ AcquireBrowser(t))

\* The event loop runs every coroutine that can go on, every external
\* operation ends, and asyncio.Semaphore wakes its waiters in turn, so that a
\* waiter for which a slot is free again and again gets one.
Fairness(outcomes, maxTasks) ==
    /\ WF_vars(MainStep(maxTasks))
    /\ \A t \in 1..maxTasks :
          /\ WF_vars(TaskIO(t, outcomes))
          /\ SF_vars(TaskAcquire(t))

\* SpecPools under fair scheduling.
FairSpecPools == SpecPools /\ Fairness(StubOutcomes, MaxPoolTasks)

(***************************************************************************)
(* Properties                                                              *)
(***************************************************************************)
\* Tasks awaiting client.get.
InRequest == { t \in Tasks : tasks[t].pc = "get" }

\* Tasks between new_context and the end of take_screenshot's finally block.
InCapture == { t \in Tasks : tasks[t].pc \in CapturePcs }

\* Tasks waiting for a slot of a pool.
WaitingFor(pc) == { t \in Tasks : tasks[t].pc = pc }

\* C1: at any time at most HTTPX_CONCURRENCY tasks are inside an HTTP
\* request and at most SCREENSHOT_CONCURRENCY tasks are inside a browser
\* capture.
C1_PoolBounds ==
    /\ Cardinality(InRequest) <= HTTPX_CONCURRENCY
    /\ Cardinality(InCapture) <= SCREENSHOT_CONCURRENCY

\* Both pools are full and a task waits for each of them.
C1_Witness ==
    /\ Cardinality(InCapture) = SCREENSHOT_CONCURRENCY
    /\ WaitingFor("acquire_browser") # {}
    /\ httpx_semaphore = 0
    /\ WaitingFor("acquire_httpx") # {}

\* C2: send_to_discord is called at most once for a candidate, whatever the
\* requests, the captures and the webhook do.
C2_AtMostOneAlert == \A t \in Tasks : tasks[t].alerts <= 1

\* A task that captured twice (the first capture raised from its cleanup)
\* and sent its one alert.
C2_Witness ==
    \E t \in Tasks :
        tasks[t].pc = "done" /\ Len(tasks[t].caps) = 2 /\ tasks[t].alerts = 1

\* C3 as claimed: take_screenshot is called at most once for a candidate,
\* and exactly once when https answered 404, also when its cleanup raises.
C3_AtMostOneCapture ==
    \A t \in Tasks :
        /\ Len(tasks[t].caps) <= 1
        /\ (tasks[t].r # <<>> /\ tasks[t].r[1] = "status404") => Len(tasks[t].caps) = 1

\* No request follows the https request of task t, and nothing is captured
\* or alerted for it.
StoppedAfterHttps(t) ==
    /\ tasks[t].proto = 1
    /\ Len(tasks[t].r) = 1
    /\ tasks[t].caps = <<>>
    /\ tasks[t].alerts = 0

\* The https request of task t ended in one of outcomes.
HttpsEnded(t, outcomes) == tasks[t].r # <<>> /\ tasks[t].r[1] \in outcomes

\* C4 as claimed: an https answer with a status other than 404 ends the
\* candidate: no http request, no capture, no alert.
C4_NonTakeoverStatusIsFinal ==
    \A t \in Tasks : HttpsEnded(t, {"statusOther"}) => StoppedAfterHttps(t)

\* C5 as claimed: an https timeout or redirect loop abandons the candidate:
\* no http request and no capture.
C5_TimeoutIsFinal ==
    \A t \in Tasks :
        HttpsEnded(t, {"Timeout", "TooManyRedirects"}) => StoppedAfterHttps(t)

\* C6: after a connection error on https the task does not finish without
\* the http request; a status other than 404 on http gives no capture, a 404
\* on http gives exactly one capture, of the http URL.
C6_FallbackOnConnectError ==
    \A t \in Tasks :
        HttpsEnded(t, {"ConnectError"}) =>
            /\ tasks[t].pc = "done" => Len(tasks[t].r) = 2
            /\ Len(tasks[t].r) = 2 =>
                  IF tasks[t].r[2] = "status404"
                  THEN /\ Len(tasks[t].caps) = 1
                       /\ protocols[tasks[t].caps[1]] = "http"
                  ELSE tasks[t].caps = <<>> /\ tasks[t].alerts = 0

\* A finished task whose https request could not connect and whose http
\* request answered 404.
C6_Witness ==
    \E t \in Tasks :
        /\ tasks[t].pc = "done"
        /\ tasks[t].r = <<"ConnectError", "status404">>
        /\ tasks[t].caps = <<2>>

\* The claim's own reading of a malformed hostname.
Malformed(h) ==
    \/ Len(h) = 0
    \/ \A i \in 1..Len(h) : h[i] # "."
    \/ h[1] = "."
    \/ h[Len(h)] = "."

\* C7: a malformed hostname returned by the enumeration never gets a task;
\* a well-formed one gets a task, for the root domain it was returned for.
C7_OnlyWellFormedProbed ==
    \A d \in 1..Len(enumerated) : \A h \in enumerated[d].subs :
        IF Malformed(h)
        THEN \A t \in Tasks : tasks[t].sub # h
        ELSE \E t \in Tasks : tasks[t].sub = h /\ tasks[t].domain = d

\* One enumeration returned a hostname ending in a dot, one without a dot and
\* a well-formed one.
C7_Witness ==
    \E d \in 1..Len(enumerated) :
        /\ \E h \in enumerated[d].subs : h[Len(h)] = "."
        /\ \E h \in enumerated[d].subs : ~HasDot(h)
        /\ \E t \in Tasks : tasks[t].domain = d

\* C8: in one task the http request comes after the https request has
\* ended, every take_screenshot call is for a protocol that answered 404,
\* and send_to_discord is called exactly for the captures that returned a
\* screenshot.
C8_OrderWithinTask ==
    \A t \in Tasks :
        /\ (tasks[t].pc \in HttpxPcs \/ tasks[t].pc = "acquire_httpx") =>
               Len(tasks[t].r) >= tasks[t].proto - 1
        /\ \A i \in 1..Len(tasks[t].caps) :
               /\ tasks[t].caps[i] <= Len(tasks[t].r)
               /\ tasks[t].r[tasks[t].caps[i]] = "status404"
        /\ tasks[t].pc \in ({"acquire_browser"} \cup CapturePcs) =>
               tasks[t].r[Len(tasks[t].r)] = "status404"
        /\ tasks[t].alerts = tasks[t].shots

\* A finished task whose capture failed and that sent no alert, next to one
\* whose capture gave a screenshot and that sent one.
C8_Witness ==
    /\ \E t \in Tasks :
          tasks[t].pc = "done" /\ tasks[t].caps # <<>> /\ tasks[t].alerts = 0
    /\ \E t \in Tasks :
          tasks[t].pc = "done" /\ tasks[t].r = <<"Timeout", "status404">>
              /\ tasks[t].alerts = 1

\* C9 as claimed: every context and page open in the browser belongs to a
\* capture that still holds its slot.
C9_ClosedBeforeRelease ==
    /\ contexts <= Cardinality({ t \in InCapture : tasks[t].context = "open" })
    /\ pages <= Cardinality({ t \in InCapture : tasks[t].page = "open" })

\* C10 as claimed: the probe slots are held by requests only, so a task
\* that cannot get a probe slot waits for requests in flight, never for
\* tasks that capture or alert.
C10_ChainNeverBlocksProbe ==
    (WaitingFor("acquire_httpx") # {} /\ ~CanAcquire(httpx_semaphore)) =>
        Cardinality(InRequest) = HTTPX_CONCURRENCY

\* The run met no fatal condition so far.
NoFatal == main_exc = "none"

\* Task t has returned from check_subdomain.
Completed(t) == tasks[t].pc = "done"

\* C11: in a run without a fatal condition the browser is closed only after
\* every root domain has been enumerated and every task has completed.
C11_EndAfterAllTasks ==
    (NoFatal /\ browser = "closed") =>
        /\ Len(enumerated) = target_domains
        /\ \A t \in Tasks : Completed(t)

\* The scan is complete after two root domains gave two tasks.
C11_Witness ==
    /\ NoFatal /\ main_pc = "done" /\ exit_code = 0 /\ browser = "closed"
    /\ target_domains = 2
    /\ Len(tasks) = 2

\* C12: no task ends with an exception that reaches asyncio.gather, and a
\* task is cancelled only when the whole run is aborted by SystemExit, never
\* because of what happened in a task.
C12_FailuresContained ==
    \A t \in Tasks :
        /\ tasks[t].pc # "raised"
        /\ tasks[t].pc = "cancelled" => main_exc = "SystemExit"

\* One task met an unexpected error on both protocols and a capture failed
\* in another, whose sibling's alert was still sent; the scan is complete.
C12_Witness ==
    /\ main_pc = "done" /\ NoFatal
    /\ \E t, u \in Tasks :
          /\ t # u
          /\ tasks[t].r = <<"OtherError", "OtherError">>
          /\ Completed(t)
          /\ Completed(u) /\ tasks[u].r = <<"status404">> /\ tasks[u].alerts = 1

\* C13: a root domain whose enumeration failed gives no task, and the loop
\* goes on: main leaves the enumeration only when every root domain has
\* been enumerated, and the hostnames of the other domains get their tasks.
C13_FailedDomainSkipped ==
    /\ \A d \in 1..Len(enumerated) :
          enumerated[d].rc = "failed" => \A t \in Tasks : tasks[t].domain # d
    /\ ((\E d \in 1..Len(enumerated) : enumerated[d].rc = "failed")
            /\ NoFatal /\ main_pc # "enumerate")
          => /\ Len(enumerated) = target_domains
             /\ \A d \in 1..Len(enumerated) : \A h \in enumerated[d].subs :
                   ~SkipSubdomain(h) =>
                       \E t \in Tasks : tasks[t].sub = h /\ tasks[t].domain = d

\* The first root domain failed, the second gave a task, which completed.
C13_Witness ==
    /\ Len(enumerated) = 2
    /\ enumerated[1].rc = "failed"
    /\ enumerated[2].rc = "zero"
    /\ \E t \in Tasks : tasks[t].domain = 2 /\ Completed(t)
    /\ main_pc = "done"

\* C14: once the tool was not found, no further root domain is enumerated,
\* no task is created for that or a later domain, and the process ends with
\* the browser closed and a non-zero exit code.
C14_MissingToolAborts ==
    \A d \in 1..Len(enumerated) :
        enumerated[d].rc = "not_found" =>
            /\ d = Len(enumerated)
            /\ main_exc = "SystemExit"
            /\ main_pc \notin {"enumerate", "gather"}
            /\ \A t \in Tasks : tasks[t].domain < d
            /\ main_pc = "done" => (browser = "closed" /\ exit_code > 0)

\* The tool went missing at the second of two root domains; the process has
\* exited and a task of the first domain exists.
C14_Witness ==
    /\ target_domains = 2
    /\ Len(enumerated) = 2
    /\ enumerated[2].rc = "not_found"
    /\ main_pc = "done"
    /\ tasks # <<>>

\* The browser could not be launched.
LaunchFailed ==
    main_pc = "done" /\ browser = "none" /\ file_exists /\ target_domains > 0

\* The tool was not found.
ToolMissing == \E d \in 1..Len(enumerated) : enumerated[d].rc = "not_found"

\* C15 as claimed: the exit code is non-zero exactly when the input file is
\* missing, the tool is missing or the browser could not be launched, and 0
\* otherwise.
C15_ExitCode ==
    exit_code # -1 =>
        (exit_code # 0 <=> (~file_exists \/ ToolMissing \/ LaunchFailed))

\* The number of requests of task t that answered 404.
Count404(t) == Cardinality({ i \in 1..Len(tasks[t].r) : tasks[t].r[i] = "status404" })

\* C16: without a webhook no task ever posts, and every 404 still gets its
\* take_screenshot call.
C16_NoWebhookNoPost ==
    ~webhook_url =>
        \A t \in Tasks :
            /\ tasks[t].pc # "post"
            /\ Len(tasks[t].caps) = Count404(t)

\* Without a webhook a capture gave a screenshot, send_to_discord was called
\* and returned, and the scan is complete.
C16_Witness ==
    /\ ~webhook_url
    /\ main_pc = "done" /\ exit_code = 0
    /\ \E t \in Tasks : tasks[t].shots = 1 /\ tasks[t].alerts = 1

\* C17: each well-formed hostname returned for a root domain has exactly one
\* task for that domain, and a task makes at most one request per protocol.
C17_OneTaskPerHostname ==
    /\ \A d \in 1..Len(enumerated) : \A h \in enumerated[d].subs :
          ~SkipSubdomain(h) =>
              Cardinality({ t \in Tasks : tasks[t].sub = h /\ tasks[t].domain = d }) = 1
    /\ \A t \in Tasks :
          /\ tasks[t].proto <= Len(protocols)
          /\ Len(tasks[t].r) <= tasks[t].proto

\* The tool printed a hostname twice among blank lines and malformed names,
\* and its one task made both requests.
C17_Witness ==
    \E d \in 1..Len(enumerated) :
        /\ Cardinality(enumerated[d].subs) = 4
        /\ \E t \in Tasks : tasks[t].domain = d /\ Len(tasks[t].r) = 2 /\ Completed(t)

\* C18: the free slots of each pool are its capacity less the tasks inside
\* its `async with` block, so both pools are full again once no task is
\* inside one.
C18_SlotsReleased ==
    /\ httpx_semaphore = HTTPX_CONCURRENCY - Holding(HttpxPcs)
    /\ browser_semaphore = SCREENSHOT_CONCURRENCY - Holding(CapturePcs)

\* Both tasks have completed, one of them after take_screenshot raised and
\* the loop continued, and both pools are full.
C18_Witness ==
    /\ Len(tasks) = 2
    /\ \A t \in Tasks : Completed(t)
    /\ \E t \in Tasks : Len(tasks[t].caps) = 2
    /\ \E t \in Tasks : tasks[t].r = <<"status404">>
    /\ httpx_semaphore = HTTPX_CONCURRENCY
    /\ browser_semaphore = SCREENSHOT_CONCURRENCY

\* C20 as claimed: while the browser is closed no task is still running, in
\* aborted runs too.
C20_BrowserClosedAfterTasks ==
    browser = "closed" => \A t \in Tasks : tasks[t].pc \in {"done", "cancelled"}

\* C19: under fair scheduling, with every external operation ending, the
\* run ends: main() finishes, every task has completed when no fatal
\* condition arose, and no task is left waiting for a slot.
C19_RunEnds ==
    <>(/\ main_pc = "done"
       /\ \A t \in Tasks :
             IF NoFatal THEN Completed(t) ELSE tasks[t].pc \in {"done", "cancelled"})

\* The nested acquisition at its worst: one task captures, another holds a
\* probe slot and waits for the capture slot, a third waits for a probe slot.
C19_Witness ==
    \E t, u, v \in Tasks :
        /\ tasks[t].pc \in CapturePcs
        /\ tasks[u].pc = "acquire_browser"
        /\ tasks[v].pc = "acquire_httpx"
        /\ ~CanAcquire(httpx_semaphore)
        /\ ~CanAcquire(browser_semaphore)

====
